---- MODULE Spec2Model ----
(***************************************************************************)
(* State-machine model of the HMD simulator (singaporetech/hmd).           *)
(*                                                                         *)
(* Modelled sources: src/src/hmd.ts (class HMD), src/unnamed/part_002      *)
(* (class App, the version that uses LAYER_SPLAT_* and the clamped PIP     *)
(* layout), src/unnamed/part_003 (class UI, the version whose slider       *)
(* handler calls app.updateHMDEyeCameraViewports), src/unnamed/part_000    *)
(* (class FrustumVisualizer), src/src/main.ts and src/src/constants.ts.    *)
(*                                                                         *)
(* Numbers.  A JavaScript number is modelled as an exact rational extended *)
(* with the IEEE-754 special values: a record [n, d] where                 *)
(*     d > 0, n # 0, gcd(|n|, d) = 1     a finite non-zero value n/d       *)
(*     n = 0, d = 1  /  n = 0, d = -1     +0  /  -0                         *)
(*     n = 1, d = 0  /  n = -1, d = 0     +Infinity  /  -Infinity           *)
(*     n = 0, d = 0                       NaN                               *)
(* Division by zero, 0/0, Infinity - Infinity and 0 * Infinity therefore   *)
(* behave as in the program.  Rounding is not modelled: finite results are *)
(* exact.  Math.atan is not modelled, so the four fov* fields (display     *)
(* only, read by no other computation) are left out of the derived optics. *)
(*                                                                         *)
(* Orientations.  An Euler rotation is modelled by its yaw in quarter      *)
(* turns (rotation.y = q * PI/2, rotation.x = rotation.z = 0), q in 0..3,   *)
(* so that the local axes are exact integer vectors.                       *)
(*                                                                         *)
(* Environments.  The Gaussian splat loader is modelled by its state: the  *)
(* environment index, the loads in flight and the splat meshes in the      *)
(* scene; the contents of the meshes are not.  UI.showLoading and          *)
(* UI.hideLoading are modelled from their call sites in part_002.          *)
(*                                                                         *)
(* Not modelled: the geometry of the meshes of the HMD (display, lenses,   *)
(* eyes: their positions and sizes, set by setParam and updatePosition,    *)
(* are read by no computation modelled here) and the GUI controls other    *)
(* than the sliders and the VR, Move HMD, '<' and '>' buttons.             *)
(***************************************************************************)
EXTENDS Integers, Sequences

----------------------------------------------------------------------------
(* Extended rational arithmetic (JavaScript number semantics, no rounding) *)

RECURSIVE GCD(_, _)
GCD(a, b) == IF b = 0 THEN a ELSE GCD(b, a % b)

AbsInt(i) == IF i < 0 THEN -i ELSE i

NaN == [n |-> 0, d |-> 0]
PosInf == [n |-> 1, d |-> 0]
NegInf == [n |-> -1, d |-> 0]
Zero == [n |-> 0, d |-> 1]
NegZero == [n |-> 0, d |-> -1]

IsNaN(x) == x.n = 0 /\ x.d = 0
IsInf(x) == x.n # 0 /\ x.d = 0
IsZero(x) == x.n = 0 /\ x.d # 0
IsFinite(x) == x.d # 0

\* the sign bit of a number that is not NaN: 1 or -1
Sgn(x) == IF x.n = 0 THEN x.d ELSE IF x.n > 0 THEN 1 ELSE -1

SignedZero(s) == IF s > 0 THEN Zero ELSE NegZero
SignedInf(s) == IF s > 0 THEN PosInf ELSE NegInf

\* num/den divided through by g, with the sign carried by the numerator
NormBy(num, den, g) ==
    IF den < 0 THEN [n |-> -(num \div g), d |-> -(den \div g)]
    ELSE [n |-> num \div g, d |-> den \div g]

\* the finite non-zero value num/den (den # 0, num # 0) in lowest terms
Norm(num, den) == NormBy(num, den, GCD(AbsInt(num), AbsInt(den)))

\* the rational a/b for integer literals, b > 0
Q(a, b) == IF a = 0 THEN Zero ELSE Norm(a, b)

Neg(x) ==
    IF IsNaN(x) THEN NaN
    ELSE IF IsZero(x) THEN [n |-> 0, d |-> -x.d]
    ELSE [n |-> -x.n, d |-> x.d]

Abs(x) ==
    IF IsNaN(x) THEN NaN
    ELSE IF IsZero(x) THEN Zero
    ELSE [n |-> AbsInt(x.n), d |-> x.d]

\* the product of two finite non-zero values, g1 = gcd(|x.n|, y.d) and
\* g2 = gcd(|y.n|, x.d) cancelled before multiplying
MulBy(x, y, g1, g2) ==
    [n |-> (x.n \div g1) * (y.n \div g2), d |-> (x.d \div g2) * (y.d \div g1)]

Mul(x, y) ==
    IF IsNaN(x) \/ IsNaN(y) THEN NaN
    ELSE IF (IsInf(x) /\ IsZero(y)) \/ (IsZero(x) /\ IsInf(y)) THEN NaN
    ELSE IF IsInf(x) \/ IsInf(y) THEN SignedInf(Sgn(x) * Sgn(y))
    ELSE IF IsZero(x) \/ IsZero(y) THEN SignedZero(Sgn(x) * Sgn(y))
    ELSE MulBy(x, y, GCD(AbsInt(x.n), y.d), GCD(AbsInt(y.n), x.d))

Recip(x) ==
    IF IsNaN(x) THEN NaN
    ELSE IF IsZero(x) THEN SignedInf(Sgn(x))
    ELSE IF IsInf(x) THEN SignedZero(Sgn(x))
    ELSE [n |-> Sgn(x) * x.d, d |-> AbsInt(x.n)]

Div(x, y) == Mul(x, Recip(y))

\* the value num/den, den > 0: an exact cancellation gives +0
SumOf(num, den) == IF num = 0 THEN Zero ELSE Norm(num, den)

\* the sum of two finite non-zero values over their least common
\* denominator, g = gcd(x.d, y.d)
AddBy(x, y, g) ==
    SumOf(x.n * (y.d \div g) + y.n * (x.d \div g), (x.d \div g) * y.d)

Add(x, y) ==
    IF IsNaN(x) \/ IsNaN(y) THEN NaN
    ELSE IF IsInf(x) /\ IsInf(y) THEN (IF Sgn(x) = Sgn(y) THEN x ELSE NaN)
    ELSE IF IsInf(x) THEN x
    ELSE IF IsInf(y) THEN y
    ELSE IF IsZero(x) /\ IsZero(y)
         THEN (IF Sgn(x) < 0 /\ Sgn(y) < 0 THEN NegZero ELSE Zero)
    ELSE IF IsZero(x) THEN y
    ELSE IF IsZero(y) THEN x
    ELSE AddBy(x, y, GCD(x.d, y.d))

Sub(x, y) == Add(x, Neg(y))

\* the numerator and denominator of a finite value, both zeros being 0/1
FinN(x) == x.n
FinD(x) == IF x.n = 0 THEN 1 ELSE x.d

\* x < y for finite values, g = gcd of the denominators
LtBy(x, y, g) == FinN(x) * (FinD(y) \div g) < FinN(y) * (FinD(x) \div g)

\* x < y and x > y as JavaScript evaluates them (false when either is NaN)
Lt(x, y) ==
    IF IsNaN(x) \/ IsNaN(y) THEN FALSE
    ELSE IF IsInf(x) THEN Sgn(x) < 0 /\ ~(IsInf(y) /\ Sgn(y) < 0)
    ELSE IF IsInf(y) THEN Sgn(y) > 0
    ELSE LtBy(x, y, GCD(FinD(x), FinD(y)))

Gt(x, y) == Lt(y, x)

\* x === y as JavaScript evaluates it (NaN equals nothing, +0 equals -0)
NumEq(x, y) ==
    IF IsNaN(x) \/ IsNaN(y) THEN FALSE
    ELSE IF IsZero(x) /\ IsZero(y) THEN TRUE
    ELSE x = y

Two == Q(2, 1)
One == Q(1, 1)

----------------------------------------------------------------------------
(* Vectors and orientations                                                 *)

Vec(x, y, z) == [x |-> x, y |-> y, z |-> z]

\* Vector3.add and Vector3.scale
VAdd(u, v) == Vec(Add(u.x, v.x), Add(u.y, v.y), Add(u.z, v.z))
VScale(u, k) == Vec(Mul(u.x, k), Mul(u.y, k), Mul(u.z, k))
\* Vector3.negate multiplies every component by -1
VNegate(u) == VScale(u, Q(-1, 1))

Yaws == 0 .. 3

\* camera.getDirection(Vector3.Right()) and camera.getDirection(
\* Vector3.Forward()) of a camera whose rotation is a yaw of q quarter turns
\* (left-handed, y up: a positive yaw turns +z towards +x)
RightOf(q) ==
    CASE q = 0 -> Vec(One, Zero, Zero)
      [] q = 1 -> Vec(Zero, Zero, Q(-1, 1))
      [] q = 2 -> Vec(Q(-1, 1), Zero, Zero)
      [] q = 3 -> Vec(Zero, Zero, One)

ForwardOf(q) ==
    CASE q = 0 -> Vec(Zero, Zero, One)
      [] q = 1 -> Vec(One, Zero, Zero)
      [] q = 2 -> Vec(Zero, Zero, Q(-1, 1))
      [] q = 3 -> Vec(Q(-1, 1), Zero, Zero)

----------------------------------------------------------------------------
(* HMD: the optical configuration and the solver                            *)

ParamKeys == {"f", "ipd", "eyeRelief", "distLens2Display", "displayWidth",
              "displayHeight", "farFromNear"}

\* the field initialisers of class HMD (metres)
DefaultConfig ==
    [f |-> Q(43, 1000), ipd |-> Q(65, 1000), eyeRelief |-> Q(18, 1000),
     distLens2Display |-> Q(42, 1000), displayWidth |-> Q(12096, 100000),
     displayHeight |-> Q(68, 1000), farFromNear |-> Q(3, 2)]

DefaultPos == Vec(Zero, Q(1, 10), Q(-1, 2))

\* a = (right + left) / (right - left)
OffAxisA(left, right) == Div(Add(right, left), Sub(right, left))

\* Matrix.FromValues(x, 0, 0, 0,  0, y, 0, 0,  a, b, c, 1,  0, 0, d, 0) for
\* the frustum planes (left, right, top, bottom, near, far)
OffAxisMatrix(left, right, top, bottom, near, far) ==
    << Div(Mul(Two, near), Sub(right, left)), Zero, Zero, Zero,
       Zero, Div(Mul(Two, near), Sub(top, bottom)), Zero, Zero,
       OffAxisA(left, right),
       Div(Add(top, bottom), Sub(top, bottom)),
       Div(Add(far, near), Sub(far, near)),
       One,
       Zero, Zero,
       Div(Mul(Mul(Q(-2, 1), far), near), Sub(far, near)),
       Zero >>

\* HMD.calcProjectionMatrix is modelled in the four steps of the code; each
\* step reads the configuration c and the results of the steps before it.
\* There is no validation and no early return.

\* step 1: the quantities computed from the configuration alone
lensOptics(c) ==
    [distEye2Display |-> Add(c.eyeRelief, c.distLens2Display),
     magnification |-> Div(c.f, Sub(c.f, c.distLens2Display)),
     aspectRatio |-> Div(c.displayWidth, c.displayHeight),
     distLens2Img |->
         Abs(Div(One, Sub(Div(One, c.f), Div(One, c.distLens2Display))))]

\* as imageOptics below, with the far plane at farFromNear from the eye
\* instead of from the near plane
imageOpticsFarFromEye(c, o) ==
    [imgHeight |-> Mul(c.displayHeight, o.magnification),
     distEye2Img |-> Add(o.distLens2Img, c.eyeRelief),
     near |-> o.distEye2Display,
     far |-> c.farFromNear,
     imgWidthNasal |-> Div(Mul(o.magnification, c.ipd), Two),
     imgWidthTemporal |->
         Div(Mul(o.magnification, Sub(c.displayWidth, c.ipd)), Two)]

\* step 2: the virtual image and the clip distances, from c and step 1 (o)
imageOptics(c, o) ==
    [imgHeight |-> Mul(c.displayHeight, o.magnification),
     distEye2Img |-> Add(o.distLens2Img, c.eyeRelief),
     near |-> o.distEye2Display,
     far |-> Add(o.distEye2Display, c.farFromNear),
     imgWidthNasal |-> Div(Mul(o.magnification, c.ipd), Two),
     imgWidthTemporal |->
         Div(Mul(o.magnification, Sub(c.displayWidth, c.ipd)), Two)]

\* as frustumPlanes below, with the nasal half-width on both sides of each
\* eye
frustumPlanesNasalOnly(o, i) ==
    [top |-> Div(Mul(i.near, i.imgHeight), Mul(Two, i.distEye2Img)),
     rightForLeftEye |->
         Div(Mul(o.distEye2Display, i.imgWidthNasal), i.distEye2Img),
     leftForLeftEye |->
         Div(Mul(Neg(o.distEye2Display), i.imgWidthNasal), i.distEye2Img),
     rightForRightEye |->
         Div(Mul(o.distEye2Display, i.imgWidthNasal), i.distEye2Img),
     leftForRightEye |->
         Div(Mul(Neg(o.distEye2Display), i.imgWidthNasal), i.distEye2Img)]

\* step 3: the frustum planes on the near plane, from steps 1 (o) and 2 (i)
frustumPlanes(o, i) ==
    [top |-> Div(Mul(i.near, i.imgHeight), Mul(Two, i.distEye2Img)),
     rightForLeftEye |->
         Div(Mul(o.distEye2Display, i.imgWidthNasal), i.distEye2Img),
     leftForLeftEye |->
         Div(Mul(Neg(o.distEye2Display), i.imgWidthTemporal), i.distEye2Img),
     rightForRightEye |->
         Div(Mul(o.distEye2Display, i.imgWidthTemporal), i.distEye2Img),
     leftForRightEye |->
         Div(Mul(Neg(o.distEye2Display), i.imgWidthNasal), i.distEye2Img)]

\* step 4: the two matrices; the result is every field the method assigns
solvedOptics(o, i, p) ==
    [distEye2Display |-> o.distEye2Display,
     magnification |-> o.magnification,
     imgHeight |-> i.imgHeight,
     aspectRatio |-> o.aspectRatio,
     distLens2Img |-> o.distLens2Img,
     distEye2Img |-> i.distEye2Img,
     near |-> i.near,
     far |-> i.far,
     top |-> p.top,
     bottom |-> Neg(p.top),
     imgWidthNasal |-> i.imgWidthNasal,
     imgWidthTemporal |-> i.imgWidthTemporal,
     rightForLeftEye |-> p.rightForLeftEye,
     leftForLeftEye |-> p.leftForLeftEye,
     rightForRightEye |-> p.rightForRightEye,
     leftForRightEye |-> p.leftForRightEye,
     projMatL |-> OffAxisMatrix(p.leftForLeftEye, p.rightForLeftEye,
                                p.top, Neg(p.top), i.near, i.far),
     projMatR |-> OffAxisMatrix(p.leftForRightEye, p.rightForRightEye,
                                p.top, Neg(p.top), i.near, i.far)]

solveFromImage(o, i) == solvedOptics(o, i, frustumPlanes(o, i))

solveFromLens(c, o) == solveFromImage(o, imageOptics(c, o))

\* a variant of calcProjectionMatrix that takes the magnification in absolute
\* value (the TODO in the code's comment on the lens formula)
calcProjectionMatrixAbsMagnification(c) ==
    solveFromLens(c, [lensOptics(c) EXCEPT !.magnification = Abs(@)])

\* HMD.calcProjectionMatrix: the derived optics and the two projection
\* matrices, computed from the configuration alone
calcProjectionMatrix(c) == solveFromLens(c, lensOptics(c))

\* the getter HMD.aspectRatioEye, over the stored derived optics o
aspectRatioEye(o) ==
    Div(Sub(o.rightForLeftEye, o.leftForLeftEye), Sub(o.top, o.bottom))

\* the two eye positions at the offsets offsetRight and offsetForward from p
eyesAt(p, offsetRight, offsetForward) ==
    [L |-> VAdd(VAdd(p, VNegate(offsetRight)), offsetForward),
     R |-> VAdd(VAdd(p, offsetRight), offsetForward)]

\* a variant of updateEyePos that offsets each eye by the whole ipd
updateEyePosFullIpd(p, q, ipdNow, distEye2DisplayNow) ==
    eyesAt(p, VScale(RightOf(q), ipdNow),
           VScale(ForwardOf(q), Neg(distEye2DisplayNow)))

\* HMD.updateEyePos: the eye positions from the HMD position, the control
\* camera's local axes (yaw q) and the current ipd and distEye2Display
updateEyePos(p, q, ipdNow, distEye2DisplayNow) ==
    eyesAt(p, VScale(RightOf(q), Div(ipdNow, Two)),
           VScale(ForwardOf(q), Neg(distEye2DisplayNow)))

----------------------------------------------------------------------------
(* Constants of src/src/constants.ts and of the PIP layout                  *)

LAYER_NONE == 0
LAYER_SCENE == 1
LAYER_HMD == 2
LAYER_FRUSTUM == 4
LAYER_UI == 8
LAYER_SPLAT_MAIN == 16
LAYER_SPLAT_LEFT == 32
LAYER_SPLAT_RIGHT == 64

\* the masks are built from distinct bits, so bitwise OR is addition
MainCamMask == LAYER_SCENE + LAYER_HMD + LAYER_FRUSTUM + LAYER_SPLAT_MAIN

\* the layer masks the HMD's constructor gives to its meshes, the only
\* assignment they ever get
hmdMeshLayerMasks ==
    [display |-> LAYER_HMD, lensL |-> LAYER_HMD, lensR |-> LAYER_HMD,
     eyeL |-> LAYER_HMD, eyeR |-> LAYER_HMD]

\* the layer mask FrustumVisualizer's constructor gives to its twelve tubes;
\* updateFrustumMesh updates the twelve in place
frustumTubeLayerMask == LAYER_FRUSTUM

\* the layer mask of the GUI's full-screen layer
guiLayerMask == LAYER_UI

\* locals of App.updateHMDEyeCameraViewports and App.createScene
baseDisplayWidth == Q(121, 1000)
baseWidthFraction == Q(20, 100)
maxWidthFraction == Q(45, 100)
maxHeightFraction == Q(9, 10)

----------------------------------------------------------------------------
(* App: the viewport layout                                                 *)

Viewport(x, y, width, height) ==
    [x |-> x, y |-> y, width |-> width, height |-> height]

\* the PIP height fraction for a width fraction w: the width in pixels times
\* aspectRatioEye, over the canvas height (part_002 lines 579-581, 590-592)
pipHeightFor(w, canvasWidth, canvasHeight, aspect) ==
    Div(Mul(Mul(w, canvasWidth), aspect), canvasHeight)

\* a variant of camRViewportX that leaves a gap of one viewport width
camRViewportXGap(pipViewPortX, pipViewPortWidth) ==
    Add(pipViewPortX, Mul(pipViewPortWidth, Two))

\* where the right eye's viewport starts, given the PIP rectangle
camRViewportX(pipViewPortX, pipViewPortWidth) ==
    Add(pipViewPortX, pipViewPortWidth)

\* the four pipViewPort* fields written into both cameras' viewports
\* (part_002 lines 611-619; lines 346-357 build the same two rectangles)
setViewports(a, cl, cr) ==
    [app |-> a,
     camL |-> [cl EXCEPT !.viewport =
                 Viewport(a.pipViewPortX, a.pipViewPortY,
                          a.pipViewPortWidth, a.pipViewPortHeight)],
     camR |-> [cr EXCEPT !.viewport =
                 Viewport(camRViewportX(a.pipViewPortX, a.pipViewPortWidth),
                          a.pipViewPortY,
                          a.pipViewPortWidth, a.pipViewPortHeight)]]

\* the rectangle of width w and height ht anchored to the top right corner
\* (pipViewPortX = 1 - 2 w, pipViewPortY = 1 - ht)
anchoredRect(w, ht) ==
    [width |-> w, height |-> ht,
     x |-> Sub(One, Mul(w, Two)), y |-> Sub(One, ht)]

\* the second clamp: a height above maxHeightFraction is cut to it and the
\* width recomputed from it
clampHeight(w, ht, canvasWidth, canvasHeight, aspect) ==
    IF Gt(ht, maxHeightFraction)
    THEN anchoredRect(
           Div(Div(Mul(maxHeightFraction, canvasHeight), aspect),
               canvasWidth),
           maxHeightFraction)
    ELSE anchoredRect(w, ht)

\* the first clamp: a width above maxWidthFraction is cut to it
clampWidth(w) == IF Gt(w, maxWidthFraction) THEN maxWidthFraction ELSE w

\* the height that goes with the (clamped) width w, then the second clamp
clampedRect(w, canvasWidth, canvasHeight, aspect) ==
    clampHeight(w, pipHeightFor(w, canvasWidth, canvasHeight, aspect),
                canvasWidth, canvasHeight, aspect)

\* the width fraction before the clamps: baseWidthFraction * widthScale
scaledWidth(h) == Mul(baseWidthFraction, Div(h.displayWidth, baseDisplayWidth))

\* the PIP rectangle of App.updateHMDEyeCameraViewports (else branch)
pipRect(h, e) ==
    clampedRect(clampWidth(scaledWidth(h)), e.renderWidth, e.renderHeight,
                aspectRatioEye(h))

\* the rectangle r stored in the pipViewPort* fields and written into the
\* eye cameras
storeRect(a, r, cl, cr) ==
    setViewports([a EXCEPT !.pipViewPortWidth = r.width,
                           !.pipViewPortHeight = r.height,
                           !.pipViewPortX = r.x,
                           !.pipViewPortY = r.y],
                 cl, cr)

\* the layout without its VR branch: the PIP rectangle in both display modes
updateHMDEyeCameraViewportsPipOnly(a, h, e, cl, cr) ==
    storeRect(a, pipRect(h, e), cl, cr)

\* App.updateHMDEyeCameraViewports
updateHMDEyeCameraViewports(a, h, e, cl, cr) ==
    storeRect(a,
              IF a.currDisplayMode = "vr"
              THEN [width |-> Q(1, 2), height |-> One,
                    x |-> Zero, y |-> Zero]
              ELSE pipRect(h, e),
              cl, cr)

\* the rectangle of App.createScene for the width fraction w: no clamps
createSceneRect(w, h, e) ==
    anchoredRect(w, pipHeightFor(w, e.renderWidth, e.renderHeight,
                                 aspectRatioEye(h)))

\* the layout of App.createScene (part_002 lines 324-357): as the PIP branch
\* above, without the two clamps
createSceneViewports(a, h, e, cl, cr) ==
    storeRect(a, createSceneRect(scaledWidth(h), h, e), cl, cr)

\* the mask an eye camera gets from App.togglePIPViewports: off if it
\* renders, otherwise the scene with the eye's own splat
\* as toggledMask below, switching an eye camera back on with the layers of
\* the main camera (line 699) and the eye's own splat
toggledMaskAsMainCamera(layerMask, splat) ==
    IF layerMask = LAYER_NONE
    THEN LAYER_SCENE + LAYER_HMD + LAYER_FRUSTUM + splat
    ELSE LAYER_NONE

toggledMask(layerMask, splat) ==
    IF layerMask = LAYER_NONE THEN LAYER_SCENE + splat ELSE LAYER_NONE

\* App.togglePIPViewports
togglePIPViewports(cl, cr) ==
    [camL |-> [cl EXCEPT !.layerMask = toggledMask(@, LAYER_SPLAT_LEFT)],
     camR |-> [cr EXCEPT !.layerMask = toggledMask(@, LAYER_SPLAT_RIGHT)]]

\* as withMainCamera below, without the else branch: the main camera is
\* switched off for VR and never switched on again
withMainCameraOffOnly(v, cam, mode) ==
    [app |-> v.app, camL |-> v.camL, camR |-> v.camR,
     camera |-> [cam EXCEPT !.layerMask =
                   IF mode = "vr" THEN LAYER_NONE ELSE @]]

\* the main camera's mask for a display mode, next to the new layout v
withMainCamera(v, cam, mode) ==
    [app |-> v.app, camL |-> v.camL, camR |-> v.camR,
     camera |-> [cam EXCEPT !.layerMask =
                   IF mode = "vr" THEN LAYER_NONE ELSE MainCamMask]]

\* App.setDisplayMode
setDisplayMode(a, h, e, cl, cr, cam, mode) ==
    withMainCamera(
      updateHMDEyeCameraViewports([a EXCEPT !.currDisplayMode = mode],
                                  h, e, cl, cr),
      cam, mode)

----------------------------------------------------------------------------
(* FrustumVisualizer: corner reconstruction                                 *)

\* the point (rx, ry, rz) scaled by rw = 1 / w
scaledBy(rx, ry, rz, rw) == Vec(Mul(rx, rw), Mul(ry, rw), Mul(rz, rw))

\* Vector3.TransformCoordinates(v, m): the row vector (v, 1) times m, divided
\* by its w component
TransformCoordinates(v, m) ==
    scaledBy(
      Add(Add(Add(Mul(v.x, m[1]), Mul(v.y, m[5])), Mul(v.z, m[9])), m[13]),
      Add(Add(Add(Mul(v.x, m[2]), Mul(v.y, m[6])), Mul(v.z, m[10])), m[14]),
      Add(Add(Add(Mul(v.x, m[3]), Mul(v.y, m[7])), Mul(v.z, m[11])), m[15]),
      Div(One,
          Add(Add(Add(Mul(v.x, m[4]), Mul(v.y, m[8])), Mul(v.z, m[12])),
              m[16])))

\* Matrix.Invert(projMat) for a matrix with the entries of OffAxisMatrix,
\*   | x 0 0 0 |            | 1/x   0     0   0    |
\*   | 0 y 0 0 |   whose    | 0     1/y   0   0    |
\*   | a b c 1 |  inverse   | 0     0     0   1/d  |
\*   | 0 0 d 0 |    is      | -a/x  -b/y  1   -c/d |
InvertProjection(m) ==
    << Div(One, m[1]), Zero, Zero, Zero,
       Zero, Div(One, m[6]), Zero, Zero,
       Zero, Zero, Zero, Div(One, m[15]),
       Neg(Div(m[9], m[1])), Neg(Div(m[10], m[6])), One,
       Neg(Div(m[11], m[15])) >>

\* the determinant of a matrix with the entries of OffAxisMatrix: - x y d
Determinant(m) == Neg(Mul(Mul(m[1], m[6]), m[15]))

\* Matrix.Invert(m): Babylon's invertToRef returns a copy of m itself when
\* the determinant === 0 and throws nothing; a NaN determinant is not === 0
\* and the inverse is computed from it
Invert(m) == IF IsZero(Determinant(m)) THEN m ELSE InvertProjection(m)

\* the four near corners of the clip cube, in the order of clipCorners
NearClipCorners ==
    << Vec(Q(-1, 1), One, Q(-1, 1)), Vec(One, One, Q(-1, 1)),
       Vec(Q(-1, 1), Q(-1, 1), Q(-1, 1)), Vec(One, Q(-1, 1), Q(-1, 1)) >>

\* the near clip corners through the inverse projection invProj
unprojectNear(invProj) ==
    [i \in 1 .. 4 |-> TransformCoordinates(NearClipCorners[i], invProj)]

\* FrustumVisualizer.calculateFrustumCorners up to the view transform: the
\* near clip corners taken through inverse(projMat) into eye space
nearCornersInEyeSpace(projMat) == unprojectNear(Invert(projMat))

\* FrustumVisualizer.updateFrustumMesh(projMat, viewMat), per frame: the
\* corners that become the end points of the tubes' paths. Nothing is tested
\* and nothing is thrown between the matrices and MeshBuilder.CreateTube.
updateFrustumMesh(projMat) == nearCornersInEyeSpace(projMat)

----------------------------------------------------------------------------
(* HMD: parameter edits and pose updates                                    *)

\* the fields calcProjectionMatrix assigns
DerivedKeys ==
    {"distEye2Display", "magnification", "imgHeight", "aspectRatio",
     "distLens2Img", "distEye2Img", "near", "far", "top", "bottom",
     "imgWidthNasal", "imgWidthTemporal", "rightForLeftEye",
     "leftForLeftEye", "rightForRightEye", "leftForRightEye",
     "projMatL", "projMatR"}

\* the fields of h that calcProjectionMatrix assigns, replaced by those of d
Assign(h, d) == [k \in DOMAIN h |-> IF k \in DerivedKeys THEN d[k] ELSE h[k]]

\* the derived optics and the matrices as stored in h
Optics(h) == [k \in DerivedKeys |-> h[k]]

\* what an observer of onValuesUpdatedObservable can read when it is
\* notified: the stored derived values (displayCalculatedVals), the eye
\* positions and the eye cameras' viewports
Seen(h, cl, cr) ==
    [notified |-> TRUE, optics |-> Optics(h),
     eyePosL |-> h.eyePosL, eyePosR |-> h.eyePosR,
     viewportL |-> cl.viewport, viewportR |-> cr.viewport]

\* this.eyePosL and this.eyePosR assigned from ep
withEyePos(h, ep) == [h EXCEPT !.eyePosL = ep.L, !.eyePosR = ep.R]

\* as refreeze below, with the left eye's matrix frozen into both cameras
refreezeLeftIntoBoth(h, cl, cr, cc) ==
    [hmd |-> withEyePos(h, updateEyePos(h.pos, cc.rotation, h.ipd,
                                        h.distEye2Display)),
     camL |-> [cl EXCEPT !.projection = h.projMatL],
     camR |-> [cr EXCEPT !.projection = h.projMatL]]

\* setParam after the solver: the matrices frozen into the cameras, then
\* updateEyePos
refreeze(h, cl, cr, cc) ==
    [hmd |-> withEyePos(h, updateEyePos(h.pos, cc.rotation, h.ipd,
                                        h.distEye2Display)),
     camL |-> [cl EXCEPT !.projection = h.projMatL],
     camR |-> [cr EXCEPT !.projection = h.projMatR]]

\* as recompute below, with a solver that reads the eye-to-display distance
\* stored by the call before instead of computing it first
recomputeFromStoredDistance(h, cl, cr, cc) ==
    refreeze(Assign(h, solveFromLens(h, [lensOptics(h) EXCEPT
                                           !.distEye2Display =
                                               h.distEye2Display])),
             cl, cr, cc)

\* setParam after this[key] = value: the solver, then the rest
recompute(h, cl, cr, cc) ==
    refreeze(Assign(h, calcProjectionMatrix(h)), cl, cr, cc)

\* the end of setParam: the observers are notified of the state r
notifyValuesUpdated(r) ==
    [hmd |-> r.hmd, camL |-> r.camL, camR |-> r.camR,
     rejected |-> FALSE,
     log |-> << "calcProjectionMatrix", "freezeProjectionMatrix",
                "updateEyePos", "notifyValuesUpdated" >>,
     seen |-> Seen(r.hmd, r.camL, r.camR)]

\* the observers shown the state `seen` before the state r is computed
notifiedBefore(r, seen) ==
    [hmd |-> r.hmd, camL |-> r.camL, camR |-> r.camR,
     rejected |-> FALSE,
     log |-> << "notifyValuesUpdated", "calcProjectionMatrix",
                "freezeProjectionMatrix", "updateEyePos" >>,
     seen |-> seen]

\* a variant of setParam that notifies the observers before it re-runs the
\* solver
setParamNotifyFirst(h, cl, cr, cc, key, value) ==
    notifiedBefore(recompute([h EXCEPT ![key] = value], cl, cr, cc),
                   Seen([h EXCEPT ![key] = value], cl, cr))

\* HMD.setParam: store the value, re-run the solver, freeze the matrices
\* into the cameras, recompute the eye positions, notify the observers.
\* Nothing is validated and nothing is thrown: rejected is always FALSE.
setParam(h, cl, cr, cc, key, value) ==
    notifyValuesUpdated(recompute([h EXCEPT ![key] = value], cl, cr, cc))

\* HMD.updateCamera2EyePos(camera, isLeftEye)
updateCamera2EyePos(h, cam, isLeftEye) ==
    [cam EXCEPT !.position = IF isLeftEye THEN h.eyePosL ELSE h.eyePosR]

\* the end of updatePosition: both cameras take the new eye positions
camerasToEyes(h, d, cl, cr) ==
    [hmd |-> h, display |-> d,
     camL |-> updateCamera2EyePos(h, cl, TRUE),
     camR |-> updateCamera2EyePos(h, cr, FALSE)]

\* HMD.updatePosition
updatePosition(h, d, cl, cr, cc, newPos) ==
    camerasToEyes(
      withEyePos([h EXCEPT !.pos = newPos],
                 updateEyePos(newPos, cc.rotation, h.ipd, h.distEye2Display)),
      [d EXCEPT !.position = newPos], cl, cr)

\* HMD.updateOrientation: the display and both eye cameras take the new
\* rotation; the eye positions are copied into the cameras, not recomputed
updateOrientation(h, d, cl, cr, newRot) ==
    [hmd |-> h,
     display |-> [d EXCEPT !.rotation = newRot],
     camL |-> updateCamera2EyePos(h, [cl EXCEPT !.rotation = newRot], TRUE),
     camR |-> updateCamera2EyePos(h, [cr EXCEPT !.rotation = newRot], FALSE)]

\* updateOrientation applied to the result p of updatePosition
thenOrientation(p, newRot) ==
    updateOrientation(p.hmd, p.display, p.camL, p.camR, newRot)

\* HMD.updateTransformByUser
updateTransformByUser(h, d, cl, cr, cc) ==
    thenOrientation(updatePosition(h, d, cl, cr, cc, cc.position),
                    cc.rotation)

\* as setUserControl below, without the else branch: the control camera is
\* never detached
setUserControlAttachOnly(h, cc, isUserControlled) ==
    [hmd |-> [h EXCEPT !.isUserControlled = isUserControlled],
     controlCam |-> [cc EXCEPT !.attached = IF isUserControlled THEN TRUE
                                            ELSE @]]

\* HMD.setUserControl: the flag is set and the control camera is attached
\* to, or detached from, the canvas
setUserControl(h, cc, isUserControlled) ==
    [hmd |-> [h EXCEPT !.isUserControlled = isUserControlled],
     controlCam |-> [cc EXCEPT !.attached = isUserControlled]]

\* the main camera cam next to the result t of setUserControl
withMainControls(t, cam, attached) ==
    [hmd |-> t.hmd, controlCam |-> t.controlCam,
     camera |-> [cam EXCEPT !.attached = attached]]

\* App.toggleHMDControl
toggleHMDControl(h, cc, cam) ==
    IF h.isUserControlled
    THEN withMainControls(setUserControl(h, cc, FALSE), cam, TRUE)
    ELSE withMainControls(setUserControl(h, cc, TRUE), cam, FALSE)

----------------------------------------------------------------------------
(* App: the environments (primitives and Gaussian splats)                   *)

\* The loader's state v is a record:
\*   envID, maxEnvID   the fields of App
\*   files             the number of names in assets/assets.json
\*   splatMeshes       App.splatMeshes, the meshes the app tracks
\*   scene             the splat meshes in the scene that are not disposed
\*   primitives        the env_* meshes of loadPrimitives are in the scene
\*   pending           the calls of loadGaussianSplat that have not returned
\*   loading           the loading indicator is shown (UI.showLoading /
\*                     UI.hideLoading, called by loadGaussianSplat)
\*   loads             the calls of loadGaussianSplat so far
\* A splat mesh is [load, envID, name]: the call that imported it, the envID
\* the call was made for, and the name given to ImportMeshAsync.

\* the names of the three imports of one load
SplatNames == {"splatMain", "splatLeft", "splatRight"}

\* the meshes that the imports named in names add to the scene for the load l
importedMeshes(l, names) ==
    {[load |-> l.id, envID |-> l.envID, name |-> n] : n \in names}

\* App.disposeEnvObjects: the env_* meshes and the tracked splat meshes are
\* disposed, the array is emptied; a splat mesh that is not in
\* App.splatMeshes is not touched (its name does not start with "env")
disposeEnvObjects(v) ==
    [v EXCEPT !.primitives = FALSE,
              !.scene = @ \ v.splatMeshes,
              !.splatMeshes = {}]

\* App.loadPrimitives
loadPrimitives(v) == [v EXCEPT !.primitives = TRUE]

\* the call loadGaussianSplat(envID, scene) up to its first await
loadGaussianSplat(v, envID) ==
    [v EXCEPT !.pending = @ \cup {[id |-> v.loads + 1, envID |-> envID,
                                   stage |-> "fetch"]},
              !.loads = @ + 1]

\* App.loadEnvironment
loadEnvironment(v, envID) ==
    IF envID = 0 THEN loadPrimitives(v) ELSE loadGaussianSplat(v, envID)

\* a variant of the step below that does not wrap around at the last
\* environment
steppedEnvIDNoWrap(envID, maxEnvID, isNext) ==
    IF isNext THEN envID + 1
    ELSE IF envID = 0 THEN maxEnvID - 1 ELSE envID - 1

\* the envID that loadNextEnvironment moves to
steppedEnvID(envID, maxEnvID, isNext) ==
    IF isNext
    THEN IF envID = maxEnvID - 1 THEN 0 ELSE envID + 1
    ELSE IF envID = 0 THEN maxEnvID - 1 ELSE envID - 1

\* loadNextEnvironment after disposeEnvObjects
switchEnvironment(v, envID) ==
    loadEnvironment([v EXCEPT !.envID = envID], envID)

\* App.loadNextEnvironment(isNext, scene)
loadNextEnvironment(v, isNext) ==
    switchEnvironment(disposeEnvObjects(v),
                      steppedEnvID(v.envID, v.maxEnvID, isNext))

\* loadGaussianSplat resumed after the fetch of assets.json: maxEnvID is
\* assigned, the loading indicator shown, the three imports started
assetsFetched(v, l) ==
    [v EXCEPT !.maxEnvID = v.files + 1,
              !.loading = TRUE,
              !.pending = (@ \ {l}) \cup {[l EXCEPT !.stage = "import"]}]

\* loadGaussianSplat left by the exception of a failed fetch, which is
\* thrown before the try block: nothing is assigned
fetchFailed(v, l) == [v EXCEPT !.pending = @ \ {l}]

\* loadGaussianSplat resumed after the three imports succeeded: the meshes
\* are in the scene and replace the contents of App.splatMeshes
splatsImported(v, l) ==
    [v EXCEPT !.scene = @ \cup importedMeshes(l, SplatNames),
              !.splatMeshes = importedMeshes(l, SplatNames),
              !.loading = FALSE,
              !.pending = @ \ {l}]

\* the catch block of loadGaussianSplat: the indicator hidden, the meshes of
\* App.splatMeshes disposed, the array emptied, envID = 0 and the primitives
\* loaded
splatLoadFailed(v, l) ==
    loadEnvironment([v EXCEPT !.loading = FALSE,
                              !.scene = @ \ v.splatMeshes,
                              !.splatMeshes = {},
                              !.envID = 0,
                              !.pending = @ \ {l}],
                    0)

\* Promise.all rejected: the imports named in names had succeeded and have
\* put their meshes into the scene, at least one other failed
importsRejected(v, l, names) ==
    splatLoadFailed([v EXCEPT !.scene = @ \cup importedMeshes(l, names)], l)

\* the loader once createScene has loaded the primitives and fetched an
\* assets.json of `files` names
createSceneEnv(files) ==
    [envID |-> 0, maxEnvID |-> files + 1, files |-> files,
     splatMeshes |-> {}, scene |-> {}, primitives |-> TRUE,
     pending |-> {}, loading |-> FALSE, loads |-> 0]

----------------------------------------------------------------------------
(* Inputs                                                                   *)

\* how many slider edits, and how many direct calls of the public
\* HMD.setParam (values outside the sliders' ranges, or farFromNear, which
\* has no slider), a behaviour makes
MaxEdits == 2
MaxApiCalls == 2

\* slider positions, inside [min, max] of HMD.sliderParams
SliderValues(key) ==
    CASE key = "f" -> {Q(43, 1000), Q(42, 1000), Q(40, 1000)}
      [] key = "distLens2Display" -> {Q(42, 1000), Q(43, 1000), Q(39, 1000)}
      [] key = "ipd" -> {Q(65, 1000), Q(60, 1000)}
      [] key = "eyeRelief" -> {Q(18, 1000), Q(20, 1000)}
      [] key = "displayWidth" -> {Q(12096, 100000), Q(3, 10)}
      [] key = "displayHeight" -> {Q(68, 1000), Q(5, 100)}

SliderKeys == {"f", "ipd", "eyeRelief", "distLens2Display", "displayWidth",
               "displayHeight"}

\* arguments of a direct call
ApiValues(key) ==
    IF key = "farFromNear" THEN {Q(2, 1), Zero, Q(-1, 100)}
    ELSE SliderValues(key) \cup {Zero, Q(-1, 100)}

\* render target sizes: a desktop canvas, a small one, and a wide strip
CanvasSizes ==
    {[renderWidth |-> Q(1920, 1), renderHeight |-> Q(1080, 1)],
     [renderWidth |-> Q(800, 1), renderHeight |-> Q(600, 1)],
     [renderWidth |-> Q(3000, 1), renderHeight |-> Q(500, 1)]}

\* calls of loadGaussianSplat in a run
MaxLoads == 3

\* the number of splat files that assets/assets.json lists
ListedSplats == 2

\* the lengths of assets.json that a deployment can have
SplatFileCounts == {0, 1, ListedSplats}

\* the imports that can have succeeded when Promise.all rejects
PartialImports == {{}, {"splatMain"}, {"splatMain", "splatLeft"}}

\* x of the scripted animation, sin(elapsedSecs * 0.1) * animSpeed
AnimXs == {Zero, Q(1, 4)}

\* where user input can take the control camera
ControlPositions == {DefaultPos, Vec(Q(1, 10), Q(1, 10), Q(-3, 10))}
ControlYaws == {0, 1}

----------------------------------------------------------------------------
(* State                                                                    *)

VARIABLES
    hmd,         \* HMD: the configuration, the derived optics, pos, eyePos*
    camL, camR,  \* the eye cameras: position, rotation, viewport, mask,
                 \* frozen projection
    controlCam,  \* HMD.controlCam: position, rotation, attached to the canvas
    display,     \* the display mesh: position, rotation
    camera,      \* App.camera, the main camera: layer mask, attached
    app,         \* App: currDisplayMode and the pipViewPort* fields
    engine,      \* the render target size
    ui,          \* UI: the VR button's currentMode, the centre marker
    last,        \* the last operation: its name, arguments, steps in order,
                 \* and what the observers read if it notified them
    edits,       \* slider edits so far
    apiCalls,    \* direct setParam calls so far
    env          \* App's environment loader: envID, maxEnvID, splatMeshes,
                 \* the scene's splat meshes, the loads in flight

vars == << hmd, camL, camR, controlCam, display, camera, app, engine, ui,
           last, edits, apiCalls, env >>

NotSeen == [notified |-> FALSE]

Op(op, log) ==
    [op |-> op, key |-> "", value |-> Zero, rejected |-> FALSE,
     log |-> log, seen |-> NotSeen]

\* the fields of a new HMD with the configuration c, the derived optics d
\* and the eye positions ep
newHMD(c, d, ep) ==
    [k \in ParamKeys \cup DerivedKeys \cup
           {"pos", "eyePosL", "eyePosR", "isUserControlled"} |->
       CASE k \in ParamKeys -> c[k]
         [] k \in DerivedKeys -> d[k]
         [] k = "pos" -> DefaultPos
         [] k = "eyePosL" -> ep.L
         [] k = "eyePosR" -> ep.R
         [] k = "isUserControlled" -> FALSE]

\* the constructor after calcProjectionMatrix: updateEyePos
constructed(c, d) ==
    newHMD(c, d, updateEyePos(DefaultPos, 0, c.ipd, d.distEye2Display))

\* new HMD(scene, engine)
InitHMD == constructed(DefaultConfig, calcProjectionMatrix(DefaultConfig))

InitCam(position, projection) ==
    [position |-> position, rotation |-> 0, layerMask |-> LAYER_SCENE,
     projection |-> projection,
     viewport |-> Viewport(Zero, Zero, One, One)]

InitApp ==
    [currDisplayMode |-> "simulation",
     pipViewPortWidth |-> Q(25, 100), pipViewPortHeight |-> Zero,
     pipViewPortX |-> Zero, pipViewPortY |-> Zero]

\* App.createScene on an engine of size e: the HMD h and the first layout
createScene(h, e) ==
    createSceneViewports(InitApp, h, e,
                         InitCam(h.eyePosL, h.projMatL),
                         InitCam(h.eyePosR, h.projMatR))

\* the state once main.ts has built the engine, on a canvas of size e, the
\* scene and the UI
InitWith(e, files) ==
    \E h \in {InitHMD} : \E v \in {createScene(h, e)} :
       /\ hmd = h
       /\ camL = v.camL
       /\ camR = v.camR
       /\ app = v.app
       /\ controlCam = [position |-> DefaultPos, rotation |-> 0,
                        attached |-> FALSE]
       /\ display = [position |-> DefaultPos, rotation |-> 0]
       /\ camera = [layerMask |-> MainCamMask, attached |-> TRUE]
       /\ engine = e
       /\ ui = [currentMode |-> "simulation", vrCenterMarkerVisible |-> FALSE]
       /\ last = Op("createScene", << "createSceneViewports" >>)
       /\ edits = 0
       /\ apiCalls = 0
       /\ env = createSceneEnv(files)

\* the same with the assets.json of the repository's deployment
InitOn(e) == InitWith(e, ListedSplats)

\* the canvas the page has when it is loaded in a desktop browser window
DesktopCanvas == [renderWidth |-> Q(1920, 1), renderHeight |-> Q(1080, 1)]

\* start-up on a canvas of any size
Init == \E e \in CanvasSizes : InitOn(e)

----------------------------------------------------------------------------
(* Operations                                                               *)

\* the slider's onValueChangedObservable handler (part_003 lines 69-72):
\* hmd.setParam(key, value), then app.updateHMDEyeCameraViewports()
SliderChange(key, value) ==
    /\ edits < MaxEdits
    /\ value # hmd[key]
    /\ \E s \in {setParam(hmd, camL, camR, controlCam, key, value)} :
       \E v \in {updateHMDEyeCameraViewports(app, s.hmd, engine,
                                             s.camL, s.camR)} :
          /\ hmd' = s.hmd
          /\ camL' = v.camL
          /\ camR' = v.camR
          /\ app' = v.app
          /\ last' = [op |-> "slider", key |-> key, value |-> value,
                      rejected |-> s.rejected,
                      log |-> Append(s.log, "updateHMDEyeCameraViewports"),
                      seen |-> s.seen]
    /\ edits' = edits + 1
    /\ UNCHANGED << env, controlCam, display, camera, engine, ui, apiCalls >>

\* a direct call of the public method HMD.setParam
SetParamCall(key, value) ==
    /\ apiCalls < MaxApiCalls
    /\ \E s \in {setParam(hmd, camL, camR, controlCam, key, value)} :
          /\ hmd' = s.hmd
          /\ camL' = s.camL
          /\ camR' = s.camR
          /\ last' = [op |-> "setParam", key |-> key, value |-> value,
                      rejected |-> s.rejected, log |-> s.log,
                      seen |-> s.seen]
    /\ apiCalls' = apiCalls + 1
    /\ UNCHANGED << env, controlCam, display, camera, app, engine, ui, edits >>

\* a call of App.togglePIPViewports
TogglePIPViewportsCall ==
    \E t \in {togglePIPViewports(camL, camR)} :
       /\ camL' = t.camL
       /\ camR' = t.camR
       /\ last' = Op("togglePIPViewports", << "togglePIPViewports" >>)
       /\ UNCHANGED << env, hmd, controlCam, display, camera, app, engine, ui,
                       edits, apiCalls >>

\* the window's resize listener (main.ts lines 59-61): engine.resize() and
\* nothing else
Resize(size) ==
    /\ size # engine
    /\ engine' = size
    /\ last' = Op("resize", << "engine.resize" >>)
    /\ UNCHANGED << env, hmd, camL, camR, controlCam, display, camera, app, ui,
                    edits, apiCalls >>

\* the pose t written by a frame's observer, which made the calls log
Posed(t, op, log) ==
    /\ hmd' = t.hmd
    /\ display' = t.display
    /\ camL' = t.camL
    /\ camR' = t.camR
    /\ last' = Op(op, log)
    /\ UNCHANGED << env, controlCam, camera, app, engine, ui, edits, apiCalls >>

\* one scene.render(): the onBeforeRenderObservable observer of
\* App.createScene moves the HMD, then the cameras render into their
\* viewports as they are
RenderFrame ==
    IF hmd.isUserControlled
    THEN Posed(updateTransformByUser(hmd, display, camL, camR, controlCam),
               "render", << "updateTransformByUser" >>)
    ELSE \E x \in AnimXs :
           Posed(updatePosition(hmd, display, camL, camR, controlCam,
                                Vec(x, DefaultPos.y, DefaultPos.z)),
                 "render", << "updatePosition" >>)

\* the end of the VR button's handler: the layout v is run a second time
\* and the centre marker follows the display mode
ToggleVRTo(mode, m) ==
    \E v \in {updateHMDEyeCameraViewports(m.app, hmd, engine,
                                          m.camL, m.camR)} :
       /\ app' = v.app
       /\ camL' = v.camL
       /\ camR' = v.camR
       /\ camera' = m.camera
       /\ ui' = [currentMode |-> mode,
                 vrCenterMarkerVisible |-> (v.app.currDisplayMode = "vr")]
       /\ last' = Op("toggleVR", << "setDisplayMode",
                                    "updateHMDEyeCameraViewports" >>)
       /\ UNCHANGED << env, hmd, controlCam, display, engine, edits, apiCalls >>

\* the VR button's handler (part_003 lines 161-172)
ToggleVR ==
    \E mode \in {IF ui.currentMode = "simulation" THEN "vr"
                 ELSE "simulation"} :
       ToggleVRTo(mode, setDisplayMode(app, hmd, engine, camL, camR,
                                       camera, mode))

\* App.toggleHMDControl with HMD.setUserControl
ToggleHMDControl ==
    \E t \in {toggleHMDControl(hmd, controlCam, camera)} :
       /\ camera' = t.camera
       /\ hmd' = t.hmd
       /\ controlCam' = t.controlCam
       /\ last' = Op("toggleHMDControl", << "setUserControl" >>)
       /\ UNCHANGED << env, camL, camR, display, app, engine, ui, edits,
                       apiCalls >>

\* keyboard and mouse input moving the control camera while it is attached
UserInput(p, q) ==
    /\ controlCam.attached
    /\ << p, q >> # << controlCam.position, controlCam.rotation >>
    /\ controlCam' = [controlCam EXCEPT !.position = p, !.rotation = q]
    /\ last' = Op("input", << >>)
    /\ UNCHANGED << env, hmd, camL, camR, display, camera, app, engine, ui,
                    edits, apiCalls >>

\* direct calls of the public pose methods of HMD
UpdatePositionCall(p) ==
    Posed(updatePosition(hmd, display, camL, camR, controlCam, p),
          "updatePosition", << "updatePosition" >>)

UpdateOrientationCall(q) ==
    Posed(updateOrientation(hmd, display, camL, camR, q),
          "updateOrientation", << "updateOrientation" >>)

UpdateTransformByUserCall ==
    Posed(updateTransformByUser(hmd, display, camL, camR, controlCam),
          "updateTransformByUser", << "updateTransformByUser" >>)

\* the variables of the HMD and its views, which the environments leave
\* alone
hmdVars == << hmd, camL, camR, controlCam, display, camera, app, engine, ui,
              edits, apiCalls >>

\* the loader's state becomes v by the step op
EnvStep(v, op) ==
    /\ v.loads <= MaxLoads
    /\ env' = v
    /\ last' = Op(op, << op >>)
    /\ UNCHANGED hmdVars

\* the '<' and '>' buttons (part_003 lines 228-233); the button is recorded
\* as the key of the step
LoadNextEnvironment(isNext) ==
    \E v \in {loadNextEnvironment(env, isNext)} :
       /\ v.loads <= MaxLoads
       /\ env' = v
       /\ last' = [Op("loadNextEnvironment", << "loadNextEnvironment" >>)
                     EXCEPT !.key = IF isNext THEN ">" ELSE "<"]
       /\ UNCHANGED hmdVars

\* the fetch of assets.json of a pending load resolves
AssetsFetched(l) ==
    /\ l.stage = "fetch"
    /\ EnvStep(assetsFetched(env, l), "assetsFetched")

\* the fetch of assets.json of a pending load fails
FetchFailed(l) ==
    /\ l.stage = "fetch"
    /\ EnvStep(fetchFailed(env, l), "fetchFailed")

\* the three imports of a pending load have all succeeded
SplatsImported(l) ==
    /\ l.stage = "import"
    /\ EnvStep(splatsImported(env, l), "splatsImported")

\* one of the three imports of a pending load failed
ImportsRejected(l, names) ==
    /\ l.stage = "import"
    /\ EnvStep(importsRejected(env, l, names), "importsRejected")

----------------------------------------------------------------------------
(* Specifications                                                           *)

\* parameter edits, resizes, display modes and the scripted render loop
Next ==
    \/ \E key \in SliderKeys : \E value \in SliderValues(key) :
         SliderChange(key, value)
    \/ \E size \in CanvasSizes : Resize(size)
    \/ RenderFrame
    \/ ToggleVR

Spec == Init /\ [][Next]_vars

\* direct calls of HMD.setParam with arbitrary arguments and of
\* App.togglePIPViewports, between frames
NextApi ==
    \/ \E key \in ParamKeys : \E value \in ApiValues(key) :
         SetParamCall(key, value)
    \/ RenderFrame
    \/ TogglePIPViewportsCall

SpecApi == InitOn(DesktopCanvas) /\ [][NextApi]_vars

\* the sliders that move the eyes
PoseSliderKeys == {"ipd", "eyeRelief"}

\* the pose of the HMD: user control, the render loop, the pose methods and
\* the parameter edits that move the eyes
NextPose ==
    \/ \E key \in PoseSliderKeys : \E value \in SliderValues(key) :
         SliderChange(key, value)
    \/ ToggleHMDControl
    \/ \E p \in ControlPositions : \E q \in ControlYaws : UserInput(p, q)
    \/ RenderFrame
    \/ \E p \in ControlPositions : UpdatePositionCall(p)
    \/ \E q \in ControlYaws : UpdateOrientationCall(q)
    \/ UpdateTransformByUserCall

SpecPose == InitOn(DesktopCanvas) /\ [][NextPose]_vars

\* the operations that are not parameter edits (the pose methods, the
\* frames, the display modes, the resizes of the window) next to the edits of
\* the eye relief
NextOptics ==
    \/ \E value \in SliderValues("eyeRelief") :
         SliderChange("eyeRelief", value)
    \/ \E p \in ControlPositions : UpdatePositionCall(p)
    \/ \E q \in ControlYaws : UpdateOrientationCall(q)
    \/ UpdateTransformByUserCall
    \/ RenderFrame
    \/ ToggleVR
    \/ \E size \in CanvasSizes : Resize(size)

SpecOptics == InitOn(DesktopCanvas) /\ [][NextOptics]_vars

\* the environment buttons and the asynchronous completions of the loads
NextEnv ==
    \/ \E isNext \in BOOLEAN : LoadNextEnvironment(isNext)
    \/ \E l \in env.pending : AssetsFetched(l)
    \/ \E l \in env.pending : FetchFailed(l)
    \/ \E l \in env.pending : SplatsImported(l)
    \/ \E l \in env.pending : \E names \in PartialImports :
         ImportsRejected(l, names)

\* the start-up with an assets.json of `files` names
InitEnv(files) == InitWith(DesktopCanvas, files)

SpecEnv == (\E files \in SplatFileCounts : InitEnv(files)) /\ [][NextEnv]_vars

\* the display modes and the PIP toggle, between frames and resizes
NextLayers ==
    \/ TogglePIPViewportsCall
    \/ ToggleVR
    \/ RenderFrame
    \/ \E size \in CanvasSizes : Resize(size)

SpecLayers == Init /\ [][NextLayers]_vars

----------------------------------------------------------------------------
(* Properties                                                               *)

\* a valid optical configuration: every parameter strictly positive and the
\* display inside the focal length
ValidConfig(h) ==
    /\ \A k \in ParamKeys : Gt(h[k], Zero)
    /\ Gt(h.f, h.distLens2Display)

\* width over height of a viewport's pixel rectangle on the render target e
PixelAspect(vp, e) ==
    Div(Mul(vp.width, e.renderWidth), Mul(vp.height, e.renderHeight))

\* the operations that end with App.updateHMDEyeCameraViewports
LayoutOps == {"slider", "toggleVR"}

\* the position of step name in a log, 0 if it is not there
StepOf(log, name) ==
    IF \E i \in 1 .. Len(log) : log[i] = name
    THEN CHOOSE i \in 1 .. Len(log) : log[i] = name
    ELSE 0

VecEq(u, v) == NumEq(u.x, v.x) /\ NumEq(u.y, v.y) /\ NumEq(u.z, v.z)

\* C1: after a PIP-mode layout by updateHMDEyeCameraViewports, for every
\* canvas size and every valid configuration, the left eye viewport's pixel
\* rectangle has width / height equal to hmd.aspectRatioEye.
C1_PipPixelAspect ==
    (/\ last.op \in LayoutOps
     /\ app.currDisplayMode = "simulation"
     /\ ValidConfig(hmd))
    => NumEq(PixelAspect(camL.viewport, engine), aspectRatioEye(hmd))

\* C2 as stated: a parameter edit runs the solver, the eye positions, the
\* viewport layout and the observers' notification in that order, so that
\* the observers are never notified before the layout has been recomputed.
C2_NotifiedAfterLayout ==
    last.op = "slider"
    => /\ StepOf(last.log, "calcProjectionMatrix")
            < StepOf(last.log, "updateEyePos")
       /\ StepOf(last.log, "updateEyePos")
            < StepOf(last.log, "updateHMDEyeCameraViewports")
       /\ StepOf(last.log, "updateHMDEyeCameraViewports")
            < StepOf(last.log, "notifyValuesUpdated")
       /\ last.seen.viewportL = camL.viewport
       /\ last.seen.viewportR = camR.viewport

\* C2 as the code has it: a parameter edit re-runs the solver, recomputes the
\* eye positions and notifies the observers inside setParam, and lays the
\* viewports out after setParam has returned; the observers read the new
\* derived optics and eye positions and the viewports of before the edit.
C2_EditOrder ==
    [][last'.op = "slider"
       => /\ last'.log = << "calcProjectionMatrix", "freezeProjectionMatrix",
                            "updateEyePos", "notifyValuesUpdated",
                            "updateHMDEyeCameraViewports" >>
          /\ last'.seen.notified
          /\ hmd'[last'.key] = last'.value
          /\ last'.seen.optics = calcProjectionMatrix(hmd')
          /\ last'.seen.optics = Optics(hmd')
          /\ last'.seen.eyePosL = hmd'.eyePosL
          /\ last'.seen.eyePosR = hmd'.eyePosR
          /\ last'.seen.viewportL = camL.viewport
          /\ last'.seen.viewportR = camR.viewport
          /\ camL'.viewport
               = updateHMDEyeCameraViewports(app, hmd', engine,
                                             camL, camR).camL.viewport]_vars

\* an edit of the display width in PIP mode: the layout it produces differs
\* from the one the observers were shown
C2_Witness ==
    /\ last.op = "slider"
    /\ last.key = "displayWidth"
    /\ app.currDisplayMode = "simulation"
    /\ last.seen.notified
    /\ last.seen.viewportL # camL.viewport

\* C3: an edit that makes f equal to distLens2Display is rejected and leaves
\* the derived optics and both projection matrices as they were.
C3_DegenerateRejected ==
    [][(/\ last'.op \in {"slider", "setParam"}
        /\ \/ last'.key = "f" /\ NumEq(last'.value, hmd.distLens2Display)
           \/ last'.key = "distLens2Display" /\ NumEq(last'.value, hmd.f))
       => /\ last'.rejected
          /\ Optics(hmd') = Optics(hmd)
          /\ camL'.projection = camL.projection
          /\ camR'.projection = camR.projection]_vars

\* C4: setParam with a value that is not strictly positive is rejected and
\* changes nothing: the configuration, the derived optics and the matrices
\* are those of before the call.
C4_NonPositiveRejected ==
    [][(last'.op = "setParam" /\ ~Gt(last'.value, Zero))
       => /\ last'.rejected
          /\ hmd' = hmd
          /\ camL'.projection = camL.projection
          /\ camR'.projection = camR.projection]_vars

\* C5 as stated: no sequence of setParam calls stores a magnification that is
\* not strictly positive.
C5_MagnificationPositive == Gt(hmd.magnification, Zero)

\* C5 as the code has it: no edit is refused, the stored magnification is
\* f / (f - distLens2Display) as evaluated on the stored configuration, and
\* for positive f and distLens2Display it is negative exactly when
\* f < distLens2Display.
C5_MagnificationSign ==
    /\ ~last.rejected
    /\ hmd.magnification = Div(hmd.f, Sub(hmd.f, hmd.distLens2Display))
    /\ (Gt(hmd.f, Zero) /\ Gt(hmd.distLens2Display, Zero))
       => (Lt(hmd.magnification, Zero) <=> Lt(hmd.f, hmd.distLens2Display))

\* a setParam call has put the display beyond the focal length and the
\* stored magnification is negative
C5_Witness ==
    /\ last.op = "setParam"
    /\ last.key \in {"f", "distLens2Display"}
    /\ Lt(hmd.f, hmd.distLens2Display)
    /\ Lt(hmd.magnification, Zero)

\* C6: for every valid configuration the four near clip corners, taken
\* through inverse(projMatL), form the eye-space rectangle
\* [leftForLeftEye, rightForLeftEye] x [bottom, top] at depth near, and the
\* eye-space points (leftForLeftEye, top, near) and (rightForLeftEye, bottom,
\* near) project to the clip corners (-1, +1, -1) and (+1, -1, -1).
C6_NearCornersRoundTrip ==
    ValidConfig(hmd)
    => LET c == nearCornersInEyeSpace(hmd.projMatL)
       IN /\ VecEq(c[1], Vec(hmd.leftForLeftEye, hmd.top, hmd.near))
          /\ VecEq(c[2], Vec(hmd.rightForLeftEye, hmd.top, hmd.near))
          /\ VecEq(c[3], Vec(hmd.leftForLeftEye, hmd.bottom, hmd.near))
          /\ VecEq(c[4], Vec(hmd.rightForLeftEye, hmd.bottom, hmd.near))
          /\ VecEq(TransformCoordinates(
                     Vec(hmd.leftForLeftEye, hmd.top, hmd.near),
                     hmd.projMatL),
                   NearClipCorners[1])
          /\ VecEq(TransformCoordinates(
                     Vec(hmd.rightForLeftEye, hmd.bottom, hmd.near),
                     hmd.projMatL),
                   NearClipCorners[4])

\* C7: in PIP mode a frame rendered after a resize uses eye viewports that
\* were recomputed for the new canvas size.
C7_FrameUsesFreshViewports ==
    (last.op = "render" /\ app.currDisplayMode = "simulation")
    => LET v == updateHMDEyeCameraViewports(app, hmd, engine, camL, camR)
       IN /\ camL.viewport = v.camL.viewport
          /\ camR.viewport = v.camR.viewport

\* C8: the eye positions are always the HMD position minus/plus half the ipd
\* along the HMD's right axis, minus distEye2Display along its forward axis,
\* with the axes of the HMD's current orientation.
C8_EyePosFollowsOrientation ==
    LET ep == updateEyePos(hmd.pos, display.rotation, hmd.ipd,
                           hmd.distEye2Display)
    IN VecEq(hmd.eyePosL, ep.L) /\ VecEq(hmd.eyePosR, ep.R)

C10_SideBySide ==
    /\ NumEq(camR.viewport.x, Add(camL.viewport.x, camL.viewport.width))
    /\ camR.viewport.y = camL.viewport.y
    /\ camR.viewport.width = camL.viewport.width
    /\ camR.viewport.height = camL.viewport.height

\* a layout in VR mode that follows an edit of the display width
C10_Witness ==
    /\ last.op = "slider"
    /\ last.key = "displayWidth"
    /\ app.currDisplayMode = "vr"
    /\ camL.viewport.x = Zero
    /\ camR.viewport.x = Q(1, 2)

\* x <= y as JavaScript evaluates it
Le(x, y) == Lt(x, y) \/ NumEq(x, y)

\* the viewport lies inside the normalized screen [0, 1] x [0, 1]
OnScreen(vp) ==
    /\ Le(Zero, vp.x)
    /\ Le(Zero, vp.y)
    /\ Le(Add(vp.x, vp.width), One)
    /\ Le(Add(vp.y, vp.height), One)

\* the operations that end with a layout, the one of createScene included
AllLayoutOps == LayoutOps \cup {"createScene"}

\* the relation of the unclamped layout between a viewport's width and
\* height: height * canvasHeight = width * canvasWidth * aspectRatioEye
PipRelation(vp, e, aspect) ==
    NumEq(Mul(vp.height, e.renderHeight),
          Mul(Mul(vp.width, e.renderWidth), aspect))

\* C11: after every PIP-mode layout, the one of createScene included, each
\* eye viewport is at most maxWidthFraction wide and maxHeightFraction high,
\* lies inside the screen, and keeps the unclamped relation between its
\* width, its height and aspectRatioEye.
C11_PipClamped ==
    (/\ last.op \in AllLayoutOps
     /\ app.currDisplayMode = "simulation"
     /\ ValidConfig(hmd))
    => \A vp \in {camL.viewport, camR.viewport} :
         /\ Le(vp.width, maxWidthFraction)
         /\ Le(vp.height, maxHeightFraction)
         /\ OnScreen(vp)
         /\ PipRelation(vp, engine, aspectRatioEye(hmd))

\* the same for the layouts of updateHMDEyeCameraViewports alone
C11_ClampedAfterUpdate ==
    (/\ last.op \in LayoutOps
     /\ app.currDisplayMode = "simulation"
     /\ ValidConfig(hmd))
    => \A vp \in {camL.viewport, camR.viewport} :
         /\ Le(vp.width, maxWidthFraction)
         /\ Le(vp.height, maxHeightFraction)
         /\ OnScreen(vp)
         /\ PipRelation(vp, engine, aspectRatioEye(hmd))

\* C12: after every layout each eye viewport's width and height are strictly
\* positive, for any display size reachable through setParam and any canvas
\* size.
C12_PositiveViewports ==
    last.op \in AllLayoutOps
    => \A vp \in {camL.viewport, camR.viewport} :
         Gt(vp.width, Zero) /\ Gt(vp.height, Zero)

\* C13: whenever the display mode is VR the left eye's viewport is
\* (0, 0, 0.5, 1) and the right eye's is (0.5, 0, 0.5, 1), whatever the
\* configuration, the eye's aspect ratio and the canvas size are.
C13_VRHalves ==
    app.currDisplayMode = "vr"
    => /\ camL.viewport = Viewport(Zero, Zero, Q(1, 2), One)
       /\ camR.viewport = Viewport(Q(1, 2), Zero, Q(1, 2), One)

\* an edit of the display height made in VR mode on a canvas that is not the
\* desktop one
C13_Witness ==
    /\ app.currDisplayMode = "vr"
    /\ last.op = "slider"
    /\ last.key = "displayHeight"
    /\ engine # DesktopCanvas
    /\ camR.viewport = Viewport(Q(1, 2), Zero, Q(1, 2), One)

\* the layer mask contains the layer bit
HasLayer(layerMask, bit) == (layerMask \div bit) % 2 = 1

\* a camera with this mask either renders nothing or renders the splat own
\* and neither of the splats in others
ExclusiveSplat(layerMask, own, others) ==
    layerMask # LAYER_NONE
    => /\ HasLayer(layerMask, own)
       /\ \A bit \in others : ~ HasLayer(layerMask, bit)

\* C14: in every reachable state each of the main camera, camL and camR that
\* renders (mask other than LAYER_NONE) has its own splat bit in its mask
\* and neither of the other two.
C14_ExclusiveSplatBits ==
    /\ ExclusiveSplat(camera.layerMask, LAYER_SPLAT_MAIN,
                      {LAYER_SPLAT_LEFT, LAYER_SPLAT_RIGHT})
    /\ ExclusiveSplat(camL.layerMask, LAYER_SPLAT_LEFT,
                      {LAYER_SPLAT_MAIN, LAYER_SPLAT_RIGHT})
    /\ ExclusiveSplat(camR.layerMask, LAYER_SPLAT_RIGHT,
                      {LAYER_SPLAT_MAIN, LAYER_SPLAT_LEFT})

\* no rendering camera ever has the splat bit of another camera
C14_NoForeignSplat ==
    /\ \A bit \in {LAYER_SPLAT_LEFT, LAYER_SPLAT_RIGHT} :
         ~ HasLayer(camera.layerMask, bit)
    /\ \A bit \in {LAYER_SPLAT_MAIN, LAYER_SPLAT_RIGHT} :
         ~ HasLayer(camL.layerMask, bit)
    /\ \A bit \in {LAYER_SPLAT_MAIN, LAYER_SPLAT_LEFT} :
         ~ HasLayer(camR.layerMask, bit)

\* the optical state: the configuration, the solver's stored results with
\* the two matrices, the eye's aspect ratio, and the projections frozen into
\* the eye cameras
OpticalState(h, cl, cr) ==
    [config |-> [k \in ParamKeys |-> h[k]],
     optics |-> Optics(h),
     aspectRatioEye |-> aspectRatioEye(h),
     frozenL |-> cl.projection,
     frozenR |-> cr.projection]

\* the operations that call HMD.setParam
EditOps == {"slider", "setParam"}

\* C15: a step of any operation other than setParam (updatePosition,
\* updateOrientation, updateTransformByUser, the layout, a resize,
\* setDisplayMode, a frame) leaves the configuration, the derived optics,
\* aspectRatioEye, projMatL/projMatR and the cameras' frozen projections
\* unchanged, and after every setParam each eye camera's frozen projection
\* is the solver's current matrix.
C15_OnlySetParamChangesOptics ==
    [][ /\ last'.op \notin EditOps
           => OpticalState(hmd', camL', camR') = OpticalState(hmd, camL, camR)
        /\ last'.op \in EditOps
           => /\ camL'.projection = hmd'.projMatL
              /\ camR'.projection = hmd'.projMatR ]_vars

\* updateOrientation called in VR mode on a resized window after the eye
\* relief was edited: the cameras still hold the edit's matrices
C15_Witness ==
    /\ last.op = "updateOrientation"
    /\ hmd.eyeRelief = Q(20, 1000)
    /\ engine # DesktopCanvas
    /\ app.currDisplayMode = "vr"
    /\ hmd.projMatL # InitHMD.projMatL
    /\ camL.projection = hmd.projMatL
    /\ camR.projection = hmd.projMatR

\* the configuration stored in h
ConfigOf(h) == [k \in ParamKeys |-> h[k]]

\* C16: the derived optics and both matrices stored in the HMD are a function
\* of the current configuration values alone: whatever sequence of setParam
\* calls led to the configuration, they are what the solver computes from it.
C16_SolverPure ==
    Optics(hmd) = calcProjectionMatrix(ConfigOf(hmd))

\* two setParam calls that end in the default configuration again, with the
\* eye relief edited last: the optics are those of a new HMD
C16_Witness ==
    /\ last.op = "setParam"
    /\ last.key = "eyeRelief"
    /\ apiCalls >= 2
    /\ ConfigOf(hmd) = DefaultConfig
    /\ Optics(hmd) = Optics(InitHMD)

\* the clip distances and the eye's aspect ratio as the claims state them
ClipAndAspect(h) ==
    /\ NumEq(h.near, Add(h.eyeRelief, h.distLens2Display))
    /\ NumEq(h.far, Add(h.near, h.farFromNear))
    /\ Lt(h.near, h.far)
    /\ NumEq(aspectRatioEye(h),
             Div(Sub(h.rightForLeftEye, h.leftForLeftEye),
                 Sub(h.top, h.bottom)))
    /\ Gt(aspectRatioEye(h), Zero)

\* C17: in every state reachable by setParam calls near == eyeRelief +
\* distLens2Display, far == near + farFromNear, near < far, and
\* aspectRatioEye == (rightForLeftEye - leftForLeftEye) / (top - bottom) is
\* strictly positive.
C17_ClipAndAspect == ClipAndAspect(hmd)

\* the same for the valid configurations only
C17_ClipAndAspectIfValid == ValidConfig(hmd) => ClipAndAspect(hmd)

\* the position of the horizontal off-axis entry a (row 3, column 1) among
\* the sixteen values of Matrix.FromValues
OffAxisEntry == 9

\* C18: for every configuration the right eye's frustum is the horizontal
\* mirror of the left eye's: leftForRightEye == -rightForLeftEye,
\* rightForRightEye == -leftForLeftEye, bottom == -top, and projMatR equals
\* projMatL in every entry but the horizontal off-axis one, which has the
\* opposite sign.
C18_Mirror ==
    /\ NumEq(hmd.leftForRightEye, Neg(hmd.rightForLeftEye))
    /\ NumEq(hmd.rightForRightEye, Neg(hmd.leftForLeftEye))
    /\ NumEq(hmd.bottom, Neg(hmd.top))
    /\ \A i \in 1 .. 16 :
         NumEq(hmd.projMatR[i],
               IF i = OffAxisEntry THEN Neg(hmd.projMatL[i])
               ELSE hmd.projMatL[i])

\* the mirror relation between values that need not be numbers: NaN mirrors
\* NaN
C18_MirrorOrNaN ==
    /\ hmd.leftForRightEye = Neg(hmd.rightForLeftEye)
    /\ hmd.rightForRightEye = Neg(hmd.leftForLeftEye)
    /\ hmd.bottom = Neg(hmd.top)
    /\ \A i \in 1 .. 16 :
         \/ hmd.projMatR[i] = IF i = OffAxisEntry THEN Neg(hmd.projMatL[i])
                              ELSE hmd.projMatL[i]
         \/ IsZero(hmd.projMatR[i]) /\ IsZero(hmd.projMatL[i])

\* C19: every entry of projMatL and projMatR is finite in every reachable
\* state: the solver never divides by right - left, top - bottom or
\* far - near when it is zero.
C19_FiniteMatrices ==
    \A i \in 1 .. 16 :
       IsFinite(hmd.projMatL[i]) /\ IsFinite(hmd.projMatR[i])

\* in every state with a matrix entry that is not finite, one of the three
\* divisors of the matrix is zero or is itself not a finite number
C19_NonFiniteFromDivisor ==
    ~ C19_FiniteMatrices
    => \E dv \in {Sub(hmd.rightForLeftEye, hmd.leftForLeftEye),
                  Sub(hmd.top, hmd.bottom),
                  Sub(hmd.far, hmd.near)} :
         IsZero(dv) \/ ~ IsFinite(dv)

\* every coordinate of the point is a finite number
Defined(v) == IsFinite(v.x) /\ IsFinite(v.y) /\ IsFinite(v.z)

\* a matrix with the entries of OffAxisMatrix that has an inverse: finite
\* entries and a determinant - x y d other than zero
Invertible(m) ==
    /\ \A i \in 1 .. 16 : IsFinite(m[i])
    /\ ~ IsZero(m[1])
    /\ ~ IsZero(m[6])
    /\ ~ IsZero(m[15])

\* C20: a per-frame updateFrustumMesh with a projection matrix that cannot be
\* inverted does not replace the tube geometry with undefined coordinates:
\* after every frame, for both eyes, the matrix was invertible or the corners
\* given to the tubes are finite points (the reconstruction fails instead of
\* returning corners).
C20_FrustumCornersDefined ==
    last.op = "render"
    => \A projMat \in {hmd.projMatL, hmd.projMatR} :
         \/ Invertible(projMat)
         \/ \A i \in 1 .. 4 : Defined(updateFrustumMesh(projMat)[i])

C22_SceneTracked ==
    env.pending = {}
    => \A m \in env.scene :
         m \in env.splatMeshes /\ m.envID = env.envID

\* no load pending and no complete set of imported meshes left untracked or
\* in the scene of another environment
C22_NoStaleCompleteLoad ==
    env.pending = {}
    => \A m \in env.scene :
         m.name = "splatRight"
         => m \in env.splatMeshes /\ m.envID = env.envID

\* a mesh of a load of which not all three meshes are in the scene
PartiallyLoaded(m) ==
    \E n \in SplatNames : [m EXCEPT !.name = n] \notin env.scene

\* what the catch block of loadGaussianSplat leaves, but for the scene
FallenBack ==
    /\ env.envID = 0
    /\ env.splatMeshes = {}
    /\ env.primitives
    /\ ~ env.loading

\* C23: when a Gaussian splat load has failed and the failure is handled,
\* envID == 0, splatMeshes is empty and every partially loaded mesh is
\* disposed, the primitives are loaded and the loading indicator is hidden.
C23_FallbackToPrimitives ==
    last.op = "importsRejected"
    => /\ FallenBack
       /\ \A m \in env.scene : ~ PartiallyLoaded(m)

\* the same without the partially loaded meshes
C23_FallbackState == last.op = "importsRejected" => FallenBack

\* C24: after setParam has returned, each eye camera is at the eye position
\* that setParam has just recomputed: camL.position == eyePosL and
\* camR.position == eyePosR.
C24_CamerasAtEyes ==
    last.op \in EditOps
    => /\ VecEq(camL.position, hmd.eyePosL)
       /\ VecEq(camR.position, hmd.eyePosR)

\* after every frame the eye cameras are at the eye positions
C24_CamerasAtEyesAfterFrame ==
    last.op = "render"
    => /\ VecEq(camL.position, hmd.eyePosL)
       /\ VecEq(camR.position, hmd.eyePosR)

\* the parameters of the lens and the eye, which are not display dimensions
LensKeys == {"f", "ipd", "eyeRelief", "distLens2Display"}

\* aspectRatioEye is defined (a finite number) and is
\* displayWidth / (2 displayHeight)
HalfDisplayAspect(h) ==
    IsFinite(aspectRatioEye(h))
    => NumEq(aspectRatioEye(h),
             Div(h.displayWidth, Mul(Two, h.displayHeight)))

C26_MainCameraOffInVR ==
    /\ app.currDisplayMode = "vr" => camera.layerMask = LAYER_NONE
    /\ app.currDisplayMode = "simulation"
       => camera.layerMask =
            LAYER_SCENE + LAYER_HMD + LAYER_FRUSTUM + LAYER_SPLAT_MAIN
    /\ ui.currentMode = app.currDisplayMode

\* a parameter edit made in VR mode with the main camera off
C26_Witness ==
    /\ app.currDisplayMode = "vr"
    /\ last.op = "slider"
    /\ last.key = "f"
    /\ camera.layerMask = LAYER_NONE
    /\ ui.currentMode = "vr"

\* the VR button clicked twice from the simulation-mode state (a, cl, cr,
\* cam): setDisplayMode(VR), then setDisplayMode(Simulation), each followed
\* by the handler's second layout, with nothing in between
enteredVR(a, h, e, cl, cr, cam) == setDisplayMode(a, h, e, cl, cr, cam, "vr")

leftVR(v, h, e) ==
    setDisplayMode(v.app, h, e, v.camL, v.camR, v.camera, "simulation")

\* the round trip through VR restores the main camera's mask and the eye
\* cameras' viewports, and the eye cameras' masks are the same throughout
RestoredBy(v, back) ==
    /\ back.camera.layerMask = camera.layerMask
    /\ back.camL.viewport = camL.viewport
    /\ back.camR.viewport = camR.viewport
    /\ v.camL.layerMask = camL.layerMask
    /\ v.camR.layerMask = camR.layerMask
    /\ back.camL.layerMask = camL.layerMask
    /\ back.camR.layerMask = camR.layerMask

\* C27: from every reachable simulation-mode state, entering VR and leaving
\* it again with no edit or resize in between restores the main camera's
\* layer mask and both eye cameras' viewport rectangles to exactly the values
\* they had, and leaves the eye cameras' layer masks unchanged.
C27_VRRoundTrip ==
    app.currDisplayMode = "simulation"
    => RestoredBy(enteredVR(app, hmd, engine, camL, camR, camera),
                  leftVR(enteredVR(app, hmd, engine, camL, camR, camera),
                         hmd, engine))

\* the same where the viewports come from updateHMDEyeCameraViewports on the
\* present canvas
C27_RoundTripAfterLayout ==
    (app.currDisplayMode = "simulation" /\ last.op \in LayoutOps)
    => RestoredBy(enteredVR(app, hmd, engine, camL, camR, camera),
                  leftVR(enteredVR(app, hmd, engine, camL, camR, camera),
                         hmd, engine))

\* the layers of the helper geometry and of the GUI
HelperLayers == {LAYER_HMD, LAYER_FRUSTUM, LAYER_UI}

\* C28: after any sequence of togglePIPViewports and setDisplayMode calls,
\* neither eye camera's mask contains LAYER_HMD, LAYER_FRUSTUM or LAYER_UI,
\* while the HMD's meshes carry only LAYER_HMD, the frustum tubes only
\* LAYER_FRUSTUM and the GUI layer only LAYER_UI
C28_EyesSkipHelpers ==
    /\ \A bit \in HelperLayers :
          /\ ~HasLayer(camL.layerMask, bit)
          /\ ~HasLayer(camR.layerMask, bit)
    /\ \A m \in DOMAIN hmdMeshLayerMasks : hmdMeshLayerMasks[m] = LAYER_HMD
    /\ frustumTubeLayerMask = LAYER_FRUSTUM
    /\ guiLayerMask = LAYER_UI

\* the eye cameras were switched off and on again and the display is in VR
C28_Witness ==
    /\ camL.layerMask = LAYER_SCENE + LAYER_SPLAT_LEFT
    /\ camR.layerMask = LAYER_SCENE + LAYER_SPLAT_RIGHT
    /\ app.currDisplayMode = "vr"
    /\ camera.layerMask = LAYER_NONE

\* the camera that holds the user's input is the control camera exactly when
\* the HMD is user controlled, the main camera exactly when it is not
OneCameraHasInput ==
    /\ controlCam.attached <=> hmd.isUserControlled
    /\ camera.attached <=> ~hmd.isUserControlled

\* a frame takes the pose of the HMD from the control camera when the HMD is
\* user controlled, from the scripted animation (a new x, the y and z of
\* the start, the rotation left alone) when it is not
FrameDrivenByMode ==
    last'.op = "render" =>
      IF hmd.isUserControlled
      THEN /\ last'.log = << "updateTransformByUser" >>
           /\ hmd'.pos = controlCam.position
           /\ display'.position = controlCam.position
           /\ display'.rotation = controlCam.rotation
      ELSE /\ last'.log = << "updatePosition" >>
           /\ hmd'.pos.x \in AnimXs
           /\ hmd'.pos.y = DefaultPos.y
           /\ hmd'.pos.z = DefaultPos.z
           /\ display'.position = hmd'.pos
           /\ display'.rotation = display.rotation

\* C29: exactly one camera holds the user's input: after any sequence of
\* toggleHMDControl calls the control camera is attached iff
\* hmd.isUserControlled and the main camera iff not; each frame drives the
\* pose of the HMD from the control camera exactly when isUserControlled,
\* else from the scripted animation
C29_OneCameraHasInput ==
    OneCameraHasInput /\ [][OneCameraHasInput' /\ FrameDrivenByMode]_vars

\* a frame has moved the user-controlled HMD to where the input took the
\* control camera, away from the start
C29_Witness ==
    /\ last.op = "render"
    /\ hmd.isUserControlled
    /\ controlCam.attached
    /\ ~camera.attached
    /\ hmd.pos = controlCam.position
    /\ hmd.pos # DefaultPos

\* envID is an environment and every splat that was requested and has not
\* returned was requested with an index envID - 1 inside the list of file
\* names
EnvIDInRange ==
    /\ env.envID \in 0 .. env.maxEnvID - 1
    /\ \A l \in env.pending : l.envID - 1 \in 0 .. env.files - 1

\* a click on '>' or '<' moves envID by one, modulo maxEnvID, and a splat
\* it requests is requested for the new envID
OneStepWithWrapAround ==
    last'.op = "loadNextEnvironment" =>
      /\ env'.envID = IF last'.key = ">"
                       THEN (env.envID + 1) % env.maxEnvID
                       ELSE (env.envID + env.maxEnvID - 1) % env.maxEnvID
      /\ \A l \in env'.pending \ env.pending : l.envID = env'.envID

====
